---- MODULE Spec2Model ----
(***************************************************************************)
(* dukecook: the swipe session state machine of api/app/routers/swipe.py,  *)
(* the planner, the rules engine and the shopping list generator, over the *)
(* tables of api/app/models.py, with the transaction-per-request session   *)
(* of api/app/database.py; the import router and pipeline of               *)
(* api/app/routers/import_recipe.py and services/recipe_importer.py.       *)
(*                                                                         *)
(* Spec          swipe requests, each processed alone: one action per      *)
(*               handler, committed before the next request starts.        *)
(* SpecConc      swipe requests on a one-recipe session run as interleaved *)
(*               transactions, one step per database round trip, under     *)
(*               read-committed visibility.                                *)
(* SpecRules     the rules engine applied to any meal plan and rule of a   *)
(*               bounded set.                                              *)
(* SpecPlanner   planner requests, each processed alone.                   *)
(* SpecRating    rating requests on any meal plan of a bounded set.        *)
(* SpecShopping  the shopping generator applied to any meal plan and       *)
(*               pantry of a bounded set.                                  *)
(* SpecImport    photo imports with their background tasks, and the job    *)
(*               table requests, on a clock that advances.                 *)
(* SpecUrlImport URL imports, each processed alone, of any page of a       *)
(*               bounded set.                                              *)
(* SpecImportLive  SpecImport with the event loop running every scheduled  *)
(*               background task.                                          *)
(***************************************************************************)
EXTENDS Integers, FiniteSets, Bags, TLC

(***************************************************************************)
(* Bounds of the model.                                                    *)
(***************************************************************************)
MaxTime == 1
MaxPool == 2
MaxTxn == 2
MaxDay == 1
MaxPlans == 2
MaxCount == 2
MaxImports == 3
MaxHours == 1

(***************************************************************************)
(* Data of the program.                                                    *)
(***************************************************************************)
\* models.py:260  decision is nullable: null = not yet swiped
NULL == "NULL"
\* models.py:81, 261  a null in an integer or timestamp column
NullInt == -1

\* swipe.py:67  the couple; main.py seeds them as users 1 and 2
COUPLE_IDS == {1, 2}
\* the users whose requests the model follows
UserIds == COUPLE_IDS

\* The recipes table: R1 is a quick easy recipe, R2 a long hard one.
RecipeTable ==
    [r \in {1, 2} |->
        IF r = 1 THEN [total_time_min |-> 30, difficulty |-> "easy"]
                 ELSE [total_time_min |-> 60, difficulty |-> "hard"]]
RecipeIds == DOMAIN RecipeTable

Contexts == {"dinner", "weeknight", "date_night"}
Decisions == {"like", "superlike", "dislike", "skip"}
\* the decisions sent by the interleaved requests of SpecConc
ConcDecisions == {"like", "dislike"}

\* the primary keys of swipe_sessions the model follows: one session
SessionIds == {1}
CardKeys == SessionIds \X COUPLE_IDS \X RecipeIds
TxnIds == 1..MaxTxn

VARIABLES
    swipe_sessions,   \* id -> [status, recipe_pool], for the rows that exist
    swipe_cards,      \* <<session, user, recipe>> -> [decision, swiped_at], likewise
    swipe_matches,    \* bag of rows [session_id, recipe_id]
    accepted,         \* <<session, user, recipe>> -> number of swipes answered 200
    now,              \* the clock read by datetime.utcnow()
    response,         \* the response of the request handled last
    txns,             \* the request transactions in flight (SpecConc)
    meal_plans,       \* id -> [date, recipe_id, status], for the rows that exist
    meal_plan_seq,    \* the last primary key handed out by meal_plan's sequence
    dietary_rules,    \* id -> [rule_type, config, active], likewise
    request,          \* the date and recipe of the planner, rules, rating or
                      \* shopping request made last
    evaluations,      \* the list returned by the rules engine call made last
    pantry_staples,   \* the names in the pantry_staples table
    shopping_lists,   \* id -> [week_of, meal_plan_ids], for the rows that exist
    shopping_items,   \* bag of rows [list_id, name, quantity, unit]
    ratings,          \* the [recipe_id, user_id, cooked_at] of the ratings rows
    import_jobs,      \* _import_jobs: job id -> [status, created_at, result]
    tasks,            \* job id -> user_id of the background tasks not yet run
    clock,            \* time.time(), in seconds
    recipes,          \* id -> [created_by, image_path], for the imported rows
    import_log,       \* the import_log table: a list of [status, recipe_id]
    result            \* the job id named and the body returned by the import
                      \* request made last

\* the tables and clock of the swipe feature
swipeVars == <<swipe_sessions, swipe_cards, swipe_matches, accepted, now, txns>>
\* the tables of the planner, the rules engine and the shopping generator
mealVars == <<meal_plans, meal_plan_seq, dietary_rules, request, evaluations,
              pantry_staples, shopping_lists, shopping_items, ratings>>
\* the job table of the import router and the tables an import writes
importVars == <<import_jobs, tasks, clock, recipes, import_log, result>>

vars == <<swipe_sessions, swipe_cards, swipe_matches, accepted, now, response, txns,
          mealVars, importVars>>

(***************************************************************************)
(* Queries of the swipe handler, over a view `cs` of the swipe_cards table *)
(***************************************************************************)
MatchRow(s, r) == [session_id |-> s, recipe_id |-> r]

\* swipe.py:265  card.decision is not None
AlreadySwiped_NoCheck(card) == FALSE
AlreadySwiped(card) == card.decision # NULL

\* swipe.py:274, 282  decision in ("like", "superlike")
IsLike_OnlyLike(d) == d = "like"
IsLike(d) == d \in {"like", "superlike"}

\* swipe.py:276-286  the other user's liked card for the same recipe
OtherLiked_AnyUser(cs, s, r, u) ==
    \E o \in COUPLE_IDS :
        /\ <<s, o, r>> \in DOMAIN cs
        /\ IsLike(cs[<<s, o, r>>].decision)
OtherLiked(cs, s, r, u) ==
    \E o \in COUPLE_IDS \ {u} :
        /\ <<s, o, r>> \in DOMAIN cs
        /\ IsLike(cs[<<s, o, r>>].decision)

\* swipe.py:310-318  count of the session's cards with decision IS NULL
Remaining_OwnCards(cs, s, u) ==
    Cardinality({k \in CardKeys :
        k[1] = s /\ k[2] = u /\ k \in DOMAIN cs /\ cs[k].decision = NULL})
Remaining(cs, s, u) ==
    Cardinality({k \in CardKeys :
        k[1] = s /\ k \in DOMAIN cs /\ cs[k].decision = NULL})

\* swipe.py:319-325  session.status = "completed" when nothing remains
Completed(ss, s, remaining) ==
    IF remaining = 0 THEN [ss EXCEPT ![s].status = "completed"] ELSE ss

\* swipe.py:288-295  db.add(SwipeMatch(...))
AddMatch(ms, s, r, match_found) ==
    IF match_found THEN ms (+) SetToBag({MatchRow(s, r)}) ELSE ms

(***************************************************************************)
(* create_session                                                          *)
(***************************************************************************)
\* swipe.py:36-45  the context filter on the recipes table
ContextFilter(context) ==
    IF context \in {"weeknight", "quick"}
    THEN {r \in RecipeIds :
            \/ (RecipeTable[r].total_time_min # NullInt
                    /\ RecipeTable[r].total_time_min <= 45)
            \/ RecipeTable[r].total_time_min = NullInt}
    ELSE IF context = "date_night"
    THEN {r \in RecipeIds : RecipeTable[r].difficulty \in {"medium", "hard"}}
    ELSE RecipeIds

Min(a, b) == IF a < b THEN a ELSE b

\* swipe.py:48-50  order_by(random()).limit(pool_size): any pool_size of them
Pools(context, pool_size) ==
    {p \in SUBSET ContextFilter(context) :
        Cardinality(p) = Min(pool_size, Cardinality(ContextFilter(context)))}

\* models.py:244  status defaults to "active"
NewSession_Completed(pool) == [status |-> "completed", recipe_pool |-> pool]
NewSession(pool) == [status |-> "active", recipe_pool |-> pool]

\* models.py:260-261  decision and swiped_at are nullable, unset on creation
NewCard_Skipped == [decision |-> "skip", swiped_at |-> NullInt]
NewCard == [decision |-> NULL, swiped_at |-> NullInt]

\* the primary key handed to the next inserted session
NextSessionId == Cardinality(DOMAIN swipe_sessions) + 1

create_session(context, pool_size) ==
    /\ NextSessionId \in SessionIds
    /\ \E pool \in Pools(context, pool_size) :
        IF pool = {}
        THEN /\ response' = [op |-> "create_session", code |-> 400, match |-> FALSE]
             /\ UNCHANGED <<swipe_sessions, swipe_cards>>
        ELSE LET id == NextSessionId IN
             /\ swipe_sessions' = swipe_sessions @@ (id :> NewSession(pool))
             /\ swipe_cards' =
                    swipe_cards @@ [k \in {id} \X COUPLE_IDS \X pool |-> NewCard]
             /\ response' = [op |-> "create_session", code |-> 201, match |-> FALSE]
    /\ UNCHANGED <<swipe_matches, accepted, now, txns>>
    /\ UNCHANGED <<mealVars, importVars>>

(***************************************************************************)
(* swipe, processed alone (its transaction commits before the next starts) *)
(***************************************************************************)
swipe(s, u, r, d) ==
    IF <<s, u, r>> \notin DOMAIN swipe_cards
    THEN /\ response' = [op |-> "swipe", code |-> 404, match |-> FALSE]
         /\ UNCHANGED <<swipe_sessions, swipe_cards, swipe_matches, accepted, now, txns, mealVars, importVars>>
    ELSE IF AlreadySwiped(swipe_cards[<<s, u, r>>])
    THEN /\ response' = [op |-> "swipe", code |-> 400, match |-> FALSE]
         /\ UNCHANGED <<swipe_sessions, swipe_cards, swipe_matches, accepted, now, txns, mealVars, importVars>>
    ELSE LET cards1 == [swipe_cards EXCEPT
                            ![<<s, u, r>>] = [decision |-> d, swiped_at |-> now]]
             match_found == IsLike(d) /\ OtherLiked(cards1, s, r, u)
             remaining == Remaining(cards1, s, u)
         IN /\ swipe_cards' = cards1
            /\ swipe_matches' = AddMatch(swipe_matches, s, r, match_found)
            /\ swipe_sessions' = Completed(swipe_sessions, s, remaining)
            /\ accepted' = [accepted EXCEPT ![<<s, u, r>>] = @ + 1]
            /\ response' = [op |-> "swipe", code |-> 200, match |-> match_found]
            /\ UNCHANGED <<now, txns, mealVars, importVars>>

(***************************************************************************)
(* The read-only handlers                                                  *)
(***************************************************************************)
\* swipe.py:107-159
get_session(s, u) ==
    /\ response' = [op |-> "get_session",
                    code |-> IF s \in DOMAIN swipe_sessions THEN 200 ELSE 404,
                    match |-> FALSE]
    /\ UNCHANGED <<swipe_sessions, swipe_cards, swipe_matches, accepted, now, txns>>
    /\ UNCHANGED <<mealVars, importVars>>

\* swipe.py:162-240
get_next_card(s, u) ==
    /\ response' =
         [op |-> "get_next_card",
          code |-> IF \E r \in RecipeIds :
                        /\ <<s, u, r>> \in DOMAIN swipe_cards
                        /\ swipe_cards[<<s, u, r>>].decision = NULL
                   THEN 200 ELSE 404,
          match |-> FALSE]
    /\ UNCHANGED <<swipe_sessions, swipe_cards, swipe_matches, accepted, now, txns>>
    /\ UNCHANGED <<mealVars, importVars>>

\* swipe.py:336-388
get_matches(s) ==
    /\ response' = [op |-> "get_matches", code |-> 200, match |-> FALSE]
    /\ UNCHANGED <<swipe_sessions, swipe_cards, swipe_matches, accepted, now, txns>>
    /\ UNCHANGED <<mealVars, importVars>>

\* the wall clock advances between requests
Tick ==
    /\ now < MaxTime
    /\ now' = now + 1
    /\ UNCHANGED <<swipe_sessions, swipe_cards, swipe_matches, accepted, response, txns>>
    /\ UNCHANGED <<mealVars, importVars>>

(***************************************************************************)
(* Specification: requests processed one at a time                         *)
(***************************************************************************)
\* no rules or shopping call has been made
NoRequest == [date |-> 0, recipe_id |-> 0]

\* no import result: None
NoResult == [status |-> "none", error |-> "", recipe_id |-> 0]
\* no import request has been made
NoBody == [job_id |-> 0, job |-> [status |-> "none", created_at |-> 0, result |-> NoResult],
           jobs |-> << >>, import |-> NoResult]

\* the import router has handled nothing since the process started
NoImports ==
    /\ import_jobs = << >>
    /\ tasks = << >>
    /\ clock = 0
    /\ recipes = << >>
    /\ import_log = << >>
    /\ result = NoBody

IdleTxn == [pc |-> "idle", session_id |-> 0, user_id |-> 0, recipe_id |-> 0,
            decision |-> NULL, swiped_at |-> NullInt, match_found |-> FALSE,
            remaining |-> 0]

Init ==
    /\ swipe_sessions = << >>
    /\ swipe_cards = << >>
    /\ swipe_matches = EmptyBag
    /\ accepted = [k \in CardKeys |-> 0]
    /\ now = 0
    /\ response = [op |-> "none", code |-> 0, match |-> FALSE]
    /\ txns = [t \in TxnIds |-> IdleTxn]
    /\ meal_plans = << >>
    /\ meal_plan_seq = 0
    /\ dietary_rules = << >>
    /\ request = NoRequest
    /\ evaluations = << >>
    /\ pantry_staples = {}
    /\ shopping_lists = << >>
    /\ shopping_items = EmptyBag
    /\ ratings = {}
    /\ NoImports

Next ==
    \/ \E c \in Contexts, n \in 0..MaxPool : create_session(c, n)
    \/ \E s \in SessionIds, u \in UserIds, r \in RecipeIds, d \in Decisions :
            swipe(s, u, r, d)
    \/ \E s \in SessionIds, u \in UserIds : get_session(s, u)
    \/ \E s \in SessionIds, u \in UserIds : get_next_card(s, u)
    \/ \E s \in SessionIds : get_matches(s)
    \/ Tick

Spec == Init /\ [][Next]_vars

(***************************************************************************)
(* swipe as a request transaction (database.py get_db: one session per     *)
(* request, committed when the handler returns).  One step per database    *)
(* round trip of the handler.  A SELECT sees the committed tables plus the *)
(* transaction's own flushed rows; an UPDATE of a row another transaction  *)
(* has updated and not yet committed waits for that transaction.           *)
(***************************************************************************)
Key(t) == <<txns[t].session_id, txns[t].user_id, txns[t].recipe_id>>

\* the transaction has flushed its UPDATE of the card and holds the row
HoldsCard(t) == txns[t].pc \in {"check_match", "count_unswiped", "flush_session", "commit"}

\* the transaction has flushed its UPDATE of the session row
HoldsSession(t) == txns[t].pc = "commit" /\ txns[t].remaining = 0

\* what a SELECT on swipe_cards returns inside transaction t
View(t) ==
    IF HoldsCard(t)
    THEN [swipe_cards EXCEPT
            ![Key(t)] = [decision |-> txns[t].decision, swiped_at |-> txns[t].swiped_at]]
    ELSE swipe_cards

\* swipe.py:251-269  find the card, reject, or set the decision on the object
FindCard(t, s, u, r, d) ==
    /\ txns[t].pc = "idle"
    /\ IF <<s, u, r>> \notin DOMAIN swipe_cards
       THEN /\ response' = [op |-> "swipe", code |-> 404, match |-> FALSE]
            /\ UNCHANGED txns
       ELSE IF AlreadySwiped(swipe_cards[<<s, u, r>>])
       THEN /\ response' = [op |-> "swipe", code |-> 400, match |-> FALSE]
            /\ UNCHANGED txns
       ELSE /\ txns' = [txns EXCEPT ![t] =
                            [IdleTxn EXCEPT !.pc = "flush_card", !.session_id = s,
                                            !.user_id = u, !.recipe_id = r,
                                            !.decision = d, !.swiped_at = now]]
            /\ UNCHANGED response
    /\ UNCHANGED <<swipe_sessions, swipe_cards, swipe_matches, accepted, now>>
    /\ UNCHANGED <<mealVars, importVars>>

\* swipe.py:270  flush: UPDATE swipe_cards ... WHERE id = card.id
FlushCard(t) ==
    /\ txns[t].pc = "flush_card"
    /\ \A o \in TxnIds \ {t} : ~(HoldsCard(o) /\ Key(o) = Key(t))
    /\ txns' = [txns EXCEPT ![t].pc =
                    IF IsLike(txns[t].decision) THEN "check_match" ELSE "count_unswiped"]
    /\ UNCHANGED <<swipe_sessions, swipe_cards, swipe_matches, accepted, now, response>>
    /\ UNCHANGED <<mealVars, importVars>>

\* swipe.py:274-296  SELECT the other user's liked card; add the match
CheckMatch(t) ==
    /\ txns[t].pc = "check_match"
    /\ txns' = [txns EXCEPT
                    ![t].match_found = OtherLiked(View(t), txns[t].session_id,
                                                  txns[t].recipe_id, txns[t].user_id),
                    ![t].pc = "count_unswiped"]
    /\ UNCHANGED <<swipe_sessions, swipe_cards, swipe_matches, accepted, now, response>>
    /\ UNCHANGED <<mealVars, importVars>>

\* swipe.py:310-319  SELECT count of undecided cards
CountUnswiped(t) ==
    /\ txns[t].pc = "count_unswiped"
    /\ LET remaining == Remaining(View(t), txns[t].session_id, txns[t].user_id) IN
       txns' = [txns EXCEPT
                    ![t].remaining = remaining,
                    ![t].pc = IF remaining = 0 THEN "flush_session" ELSE "commit"]
    /\ UNCHANGED <<swipe_sessions, swipe_cards, swipe_matches, accepted, now, response>>
    /\ UNCHANGED <<mealVars, importVars>>

\* swipe.py:320-325  SELECT the session, flush: UPDATE swipe_sessions SET status
FlushSession(t) ==
    /\ txns[t].pc = "flush_session"
    /\ \A o \in TxnIds \ {t} :
            ~(HoldsSession(o) /\ txns[o].session_id = txns[t].session_id)
    /\ txns' = [txns EXCEPT ![t].pc = "commit"]
    /\ UNCHANGED <<swipe_sessions, swipe_cards, swipe_matches, accepted, now, response>>
    /\ UNCHANGED <<mealVars, importVars>>

\* swipe.py:328-333, database.py:33  return, then session.commit()
Commit(t) ==
    /\ txns[t].pc = "commit"
    /\ swipe_cards' = View(t)
    /\ swipe_matches' = AddMatch(swipe_matches, txns[t].session_id, txns[t].recipe_id,
                                 txns[t].match_found)
    /\ swipe_sessions' = Completed(swipe_sessions, txns[t].session_id, txns[t].remaining)
    /\ accepted' = [accepted EXCEPT ![Key(t)] = @ + 1]
    /\ response' = [op |-> "swipe", code |-> 200, match |-> txns[t].match_found]
    /\ txns' = [txns EXCEPT ![t] = IdleTxn]
    /\ UNCHANGED now
    /\ UNCHANGED <<mealVars, importVars>>

\* sessions are created with pool_size = 1: two cards, one per user
NextConc ==
    \/ \E c \in Contexts : create_session(c, 1)
    \/ \E t \in TxnIds, s \in SessionIds, u \in UserIds, r \in RecipeIds, d \in ConcDecisions :
            FindCard(t, s, u, r, d)
    \/ \E t \in TxnIds : FlushCard(t)
    \/ \E t \in TxnIds : CheckMatch(t)
    \/ \E t \in TxnIds : CountUnswiped(t)
    \/ \E t \in TxnIds : FlushSession(t)
    \/ \E t \in TxnIds : Commit(t)

SpecConc == Init /\ [][NextConc]_vars

(***************************************************************************)
(* The meal plan and the dietary rules (api/app/models.py), and the rules  *)
(* engine (api/app/services/rules_engine.py).  Dates are day numbers.      *)
(***************************************************************************)
Days == 0..MaxDay

\* models.py:207  planned, cooked, skipped
PlanStatuses == {"planned", "cooked", "skipped"}

\* recipe_tags joined with tags: the tag names each recipe carries.  Names are
\* stored lower-cased and trimmed (recipe_importer.py:186-188), and a recipe
\* carries a name at most once.
RecipeTags == [r \in RecipeIds |-> IF r = 1 THEN {"chicken"} ELSE {"vegetarian"}]

\* a value of the JSON config column: a number or a string
JInt(n) == [kind |-> "int", num |-> n, str |-> ""]
JStr(x) == [kind |-> "str", num |-> 0, str |-> x]

\* dict.get(key, default)
Get(config, key, default) == IF key \in DOMAIN config THEN config[key] ELSE default

\* str.lower(), on the names the model uses
Lower(x) == IF x = "Chicken" THEN "chicken" ELSE x

\* an evaluation dict: rule_id, status, message and the details the model keeps
Evaluation(id, status, message, count, days_since) ==
    [raised |-> FALSE, rule_id |-> id, status |-> status, message |-> message,
     count |-> count, days_since |-> days_since]

\* the call raised an exception instead of returning a dict
Raised == [raised |-> TRUE, rule_id |-> 0, status |-> "", message |-> "",
           count |-> NullInt, days_since |-> NullInt]

\* rules_engine.py:274-290  the join of meal_plan, recipes, recipe_tags, tags
count_protein_in_plan_WithSkipped(plans, protein, start, end) ==
    Cardinality({p \in DOMAIN plans :
        /\ plans[p].recipe_id \in RecipeIds
        /\ Lower(protein) \in RecipeTags[plans[p].recipe_id]
        /\ plans[p].date >= start
        /\ plans[p].date <= end})
count_protein_in_plan(plans, protein, start, end) ==
    Cardinality({p \in DOMAIN plans :
        /\ plans[p].recipe_id \in RecipeIds
        /\ Lower(protein) \in RecipeTags[plans[p].recipe_id]
        /\ plans[p].date >= start
        /\ plans[p].date <= end
        /\ plans[p].status # "skipped"})

\* rules_engine.py:293-295
count_tag_in_plan_CountingSkipped(plans, tag_name, start, end) ==
    Cardinality({p \in DOMAIN plans :
        /\ plans[p].recipe_id \in RecipeIds
        /\ Lower(tag_name) \in RecipeTags[plans[p].recipe_id]
        /\ plans[p].date >= start
        /\ plans[p].date <= end})
count_tag_in_plan(plans, tag_name, start, end) ==
    count_protein_in_plan(plans, tag_name, start, end)

\* rules_engine.py:298-310
recipe_has_tag(recipe_id, tag_name) ==
    /\ recipe_id \in RecipeIds
    /\ Lower(tag_name) \in RecipeTags[recipe_id]

\* rules_engine.py:93-133  e.g. chicken max 2x per week
eval_protein_max_AtLimit(plans, id, config, plan_date, recipe_id) ==
    LET protein == Get(config, "protein", JStr(""))
        max_count == Get(config, "max", JInt(2))
        period_days == Get(config, "period_days", JInt(7))
    IN IF period_days.kind # "int" \/ protein.kind # "str" \/ max_count.kind # "int"
       THEN Raised
       ELSE LET period_start == plan_date - period_days.num
                in_plan == count_protein_in_plan(plans, protein.str, period_start, plan_date)
                count == IF recipe_has_tag(recipe_id, protein.str)
                         THEN in_plan + 1 ELSE in_plan
            IN IF count >= max_count.num
               THEN Evaluation(id, "violated", "would appear", count, NullInt)
               ELSE Evaluation(id, "ok", "count of max", count, NullInt)
eval_protein_max(plans, id, config, plan_date, recipe_id) ==
    LET protein == Get(config, "protein", JStr(""))
        max_count == Get(config, "max", JInt(2))
        period_days == Get(config, "period_days", JInt(7))
    IN IF period_days.kind # "int" \/ protein.kind # "str" \/ max_count.kind # "int"
       THEN Raised
       ELSE LET period_start == plan_date - period_days.num
                in_plan == count_protein_in_plan(plans, protein.str, period_start, plan_date)
                count == IF recipe_has_tag(recipe_id, protein.str)
                         THEN in_plan + 1 ELSE in_plan
            IN IF count > max_count.num
               THEN Evaluation(id, "violated", "would appear", count, NullInt)
               ELSE IF count = max_count.num
               THEN Evaluation(id, "warning", "at limit", count, NullInt)
               ELSE Evaluation(id, "ok", "count of max", count, NullInt)

\* rules_engine.py:136-164  e.g. salmon at least 1x every 2 weeks
eval_protein_min(plans, id, config, plan_date, recipe_id) ==
    LET protein == Get(config, "protein", JStr(""))
        min_count == Get(config, "min", JInt(1))
        period_days == Get(config, "period_days", JInt(14))
    IN IF period_days.kind # "int" \/ protein.kind # "str" \/ min_count.kind # "int"
       THEN Raised
       ELSE LET period_start == plan_date - period_days.num
                in_plan == count_protein_in_plan(plans, protein.str, period_start, plan_date)
                count == IF recipe_has_tag(recipe_id, protein.str)
                         THEN in_plan + 1 ELSE in_plan
            IN IF count < min_count.num
               THEN Evaluation(id, "warning", "only", count, NullInt)
               ELSE Evaluation(id, "ok", "count of min", count, NullInt)

\* max(r.date for r in recent)
MaxDate(plans, ids) ==
    CHOOSE d \in {plans[p].date : p \in ids} : \A p \in ids : plans[p].date <= d

\* rules_engine.py:167-201  e.g. don't repeat the same recipe within 14 days
eval_no_repeat_Exclusive(plans, id, config, plan_date, recipe_id) ==
    LET min_days == Get(config, "min_days_between_repeat", JInt(14))
    IN IF min_days.kind # "int"
       THEN Raised
       ELSE LET period_start == plan_date - min_days.num
                recent == {p \in DOMAIN plans :
                            /\ plans[p].recipe_id = recipe_id
                            /\ plans[p].date > period_start
                            /\ plans[p].date <= plan_date
                            /\ plans[p].status # "skipped"}
            IN IF recent # {}
               THEN Evaluation(id, "violated", "planned days ago", NullInt,
                               plan_date - MaxDate(plans, recent))
               ELSE Evaluation(id, "ok", "not repeated", NullInt, NullInt)
eval_no_repeat(plans, id, config, plan_date, recipe_id) ==
    LET min_days == Get(config, "min_days_between_repeat", JInt(14))
    IN IF min_days.kind # "int"
       THEN Raised
       ELSE LET period_start == plan_date - min_days.num
                recent == {p \in DOMAIN plans :
                            /\ plans[p].recipe_id = recipe_id
                            /\ plans[p].date >= period_start
                            /\ plans[p].date <= plan_date
                            /\ plans[p].status # "skipped"}
            IN IF recent # {}
               THEN Evaluation(id, "violated", "planned days ago", NullInt,
                               plan_date - MaxDate(plans, recent))
               ELSE Evaluation(id, "ok", "not repeated", NullInt, NullInt)

\* rules_engine.py:204-232  e.g. at least 2 vegetarian dinners per week
eval_min_tag(plans, id, config, plan_date, recipe_id) ==
    LET tag_name == Get(config, "tag", JStr(""))
        min_count == Get(config, "min", JInt(2))
        period_days == Get(config, "period_days", JInt(7))
    IN IF period_days.kind # "int" \/ tag_name.kind # "str" \/ min_count.kind # "int"
       THEN Raised
       ELSE LET period_start == plan_date - period_days.num
                in_plan == count_tag_in_plan(plans, tag_name.str, period_start, plan_date)
                count == IF recipe_has_tag(recipe_id, tag_name.str)
                         THEN in_plan + 1 ELSE in_plan
            IN IF count < min_count.num
               THEN Evaluation(id, "warning", "only", count, NullInt)
               ELSE Evaluation(id, "ok", "count of min", count, NullInt)

\* rules_engine.py:235-271  e.g. max 2 pasta dishes per week
eval_max_tag(plans, id, config, plan_date, recipe_id) ==
    LET tag_name == Get(config, "tag", JStr(""))
        max_count == Get(config, "max", JInt(2))
        period_days == Get(config, "period_days", JInt(7))
    IN IF period_days.kind # "int" \/ tag_name.kind # "str" \/ max_count.kind # "int"
       THEN Raised
       ELSE LET period_start == plan_date - period_days.num
                in_plan == count_tag_in_plan(plans, tag_name.str, period_start, plan_date)
                count == IF recipe_has_tag(recipe_id, tag_name.str)
                         THEN in_plan + 1 ELSE in_plan
            IN IF count > max_count.num
               THEN Evaluation(id, "violated", "would appear", count, NullInt)
               ELSE IF count = max_count.num
               THEN Evaluation(id, "warning", "at limit", count, NullInt)
               ELSE Evaluation(id, "ok", "count of max", count, NullInt)

\* rules_engine.py:63-90  dispatch on rule_type; an unknown type is ok
evaluate_single_rule_FailClosed(plans, id, rule, plan_date, recipe_id) ==
    IF rule.rule_type = "protein_max_per_week"
    THEN eval_protein_max(plans, id, rule.config, plan_date, recipe_id)
    ELSE IF rule.rule_type = "protein_min_per_period"
    THEN eval_protein_min(plans, id, rule.config, plan_date, recipe_id)
    ELSE IF rule.rule_type = "no_repeat_within_days"
    THEN eval_no_repeat(plans, id, rule.config, plan_date, recipe_id)
    ELSE IF rule.rule_type = "min_tag_per_week"
    THEN eval_min_tag(plans, id, rule.config, plan_date, recipe_id)
    ELSE IF rule.rule_type = "max_tag_per_week"
    THEN eval_max_tag(plans, id, rule.config, plan_date, recipe_id)
    ELSE Raised
evaluate_single_rule(plans, id, rule, plan_date, recipe_id) ==
    IF rule.rule_type = "protein_max_per_week"
    THEN eval_protein_max(plans, id, rule.config, plan_date, recipe_id)
    ELSE IF rule.rule_type = "protein_min_per_period"
    THEN eval_protein_min(plans, id, rule.config, plan_date, recipe_id)
    ELSE IF rule.rule_type = "no_repeat_within_days"
    THEN eval_no_repeat(plans, id, rule.config, plan_date, recipe_id)
    ELSE IF rule.rule_type = "min_tag_per_week"
    THEN eval_min_tag(plans, id, rule.config, plan_date, recipe_id)
    ELSE IF rule.rule_type = "max_tag_per_week"
    THEN eval_max_tag(plans, id, rule.config, plan_date, recipe_id)
    ELSE Evaluation(id, "ok", "Unknown rule type", NullInt, NullInt)

\* rules_engine.py:17-22  the rules WHERE active
get_active_rules(rules) == {id \in DOMAIN rules : rules[id].active}

\* rules_engine.py:50-58  the except branch: an evaluation with status error
ErrorEvaluation(id) ==
    Evaluation(id, "error", "Error evaluating rule", NullInt, NullInt)

\* rules_engine.py:25-60  one evaluation per active rule, keyed by rule id
evaluate_rules(plans, rules, plan_date, recipe_id) ==
    [id \in get_active_rules(rules) |->
        LET eval_result == evaluate_single_rule(plans, id, rules[id], plan_date, recipe_id)
        IN IF eval_result.raised THEN ErrorEvaluation(id) ELSE eval_result]

\* rules_engine.py:313-391  the status of every active rule over the week
\* [week_start, week_start + 6]; no candidate is counted
get_rule_status_for_week(plans, rules, week_start) ==
    [id \in get_active_rules(rules) |->
        LET config == rules[id].config
            rule_type == rules[id].rule_type
            week_end == week_start + 6
            protein == Get(config, "protein", JStr(""))
            tag == Get(config, "tag", JStr(""))
        IN IF rule_type = "protein_max_per_week"
           THEN LET max_count == Get(config, "max", JInt(2)) IN
                IF protein.kind # "str" \/ max_count.kind # "int"
                THEN ErrorEvaluation(id)
                ELSE LET count == count_protein_in_plan(plans, protein.str,
                                                        week_start, week_end)
                     IN Evaluation(id,
                            IF count > max_count.num THEN "violated"
                            ELSE IF count = max_count.num THEN "warning" ELSE "ok",
                            "count of max", count, NullInt)
           ELSE IF rule_type = "protein_min_per_period"
           THEN LET min_count == Get(config, "min", JInt(1))
                    period_days == Get(config, "period_days", JInt(14))
                IN IF period_days.kind # "int" \/ protein.kind # "str"
                        \/ min_count.kind # "int"
                   THEN ErrorEvaluation(id)
                   ELSE LET count == count_protein_in_plan(plans, protein.str,
                                        week_start - period_days.num, week_end)
                        IN Evaluation(id,
                               IF count < min_count.num THEN "warning" ELSE "ok",
                               "count of min", count, NullInt)
           ELSE IF rule_type = "min_tag_per_week"
           THEN LET min_count == Get(config, "min", JInt(2)) IN
                IF tag.kind # "str" \/ min_count.kind # "int"
                THEN ErrorEvaluation(id)
                ELSE LET count == count_tag_in_plan(plans, tag.str, week_start, week_end)
                     IN Evaluation(id,
                            IF count < min_count.num THEN "warning" ELSE "ok",
                            "count of min", count, NullInt)
           ELSE IF rule_type = "max_tag_per_week"
           THEN LET max_count == Get(config, "max", JInt(2)) IN
                IF tag.kind # "str" \/ max_count.kind # "int"
                THEN ErrorEvaluation(id)
                ELSE LET count == count_tag_in_plan(plans, tag.str, week_start, week_end)
                     IN Evaluation(id,
                            IF count > max_count.num THEN "violated"
                            ELSE IF count = max_count.num THEN "warning" ELSE "ok",
                            "count of max", count, NullInt)
           ELSE Evaluation(id, "ok", "", NullInt, NullInt)]

\* the tables the rules and shopping calls leave alone
UnchangedByRules ==
    UNCHANGED <<swipeVars, importVars, ratings, meal_plans, meal_plan_seq, dietary_rules,
                pantry_staples, shopping_lists, shopping_items>>

\* rules.py:186-195  POST /api/rules/evaluate
evaluate_Inserting(recipe_id, plan_date) ==
    /\ request' = [date |-> plan_date, recipe_id |-> recipe_id]
    /\ evaluations' = evaluate_rules(meal_plans, dietary_rules, plan_date, recipe_id)
    /\ response' = [op |-> "evaluate", code |-> 200, match |-> FALSE]
    /\ meal_plans' = meal_plans @@
            ((meal_plan_seq + 1) :>
                [date |-> plan_date, recipe_id |-> recipe_id, status |-> "planned"])
    /\ meal_plan_seq' = meal_plan_seq + 1
    /\ UNCHANGED <<swipeVars, importVars, ratings, dietary_rules, pantry_staples, shopping_lists,
                   shopping_items>>
evaluate(recipe_id, plan_date) ==
    /\ request' = [date |-> plan_date, recipe_id |-> recipe_id]
    /\ evaluations' = evaluate_rules(meal_plans, dietary_rules, plan_date, recipe_id)
    /\ response' = [op |-> "evaluate", code |-> 200, match |-> FALSE]
    /\ UnchangedByRules

\* rules.py:198-206  GET /api/rules/status
week_rule_status(week_start) ==
    /\ request' = [date |-> week_start, recipe_id |-> 0]
    /\ evaluations' = get_rule_status_for_week(meal_plans, dietary_rules, week_start)
    /\ response' = [op |-> "week_rule_status", code |-> 200, match |-> FALSE]
    /\ UnchangedByRules

(***************************************************************************)
(* Specification of the rules engine: the meal plan and the rule are any   *)
(* of a bounded set, and rules are evaluated against them.                 *)
(***************************************************************************)
\* the candidate recipes: the recipes, and an id no recipe has
CandidateIds == RecipeIds \cup {3}

PlanRows == [date : Days, recipe_id : RecipeIds, status : PlanStatuses]

\* an order on the rows, to list a plan's rows once whatever their ids
RowRank(row) ==
    (row.date * 2 + (row.recipe_id - 1)) * 3
        + (IF row.status = "planned" THEN 0 ELSE IF row.status = "cooked" THEN 1 ELSE 2)

\* the plan histories: up to MaxPlans rows, ids in the order of RowRank
Histories ==
    UNION {{h \in [1..n -> PlanRows] :
                \A i \in 1..(n - 1) : RowRank(h[i]) <= RowRank(h[i + 1])} :
           n \in 0..MaxPlans}

Rule(rule_type, config) == [rule_type |-> rule_type, config |-> config, active |-> TRUE]

Counts == 0..MaxCount
Periods == 0..MaxDay

\* the rows create_rule (rules.py:32-49) can store: rule_type is any string
\* and config any dict
RuleRows ==
    {Rule("protein_max_per_week",
          ("protein" :> JStr("Chicken")) @@ ("max" :> JInt(m)) @@ ("period_days" :> JInt(d))) :
        m \in Counts, d \in Periods}
    \cup {Rule("protein_min_per_period",
          ("protein" :> JStr("chicken")) @@ ("min" :> JInt(m)) @@ ("period_days" :> JInt(d))) :
        m \in Counts, d \in Periods}
    \cup {Rule("no_repeat_within_days", ("min_days_between_repeat" :> JInt(d))) :
        d \in Periods}
    \cup {Rule("protein_max_per_week", ("protein" :> JStr("chicken"))),
          Rule("protein_min_per_period", ("protein" :> JStr("chicken"))),
          Rule("no_repeat_within_days", << >>),
          Rule("min_tag_per_week", ("tag" :> JStr("vegetarian")) @@ ("min" :> JInt(1))),
          Rule("max_tag_per_week", ("tag" :> JStr("vegetarian")) @@ ("max" :> JInt(1))),
          Rule("custom", << >>),
          Rule("protein_max_per_week",
               ("protein" :> JStr("chicken")) @@ ("max" :> JStr("two"))),
          Rule("protein_min_per_period", ("protein" :> JInt(1))),
          [Rule("custom", << >>) EXCEPT !.active = FALSE]}

InitRules ==
    /\ swipe_sessions = << >>
    /\ swipe_cards = << >>
    /\ swipe_matches = EmptyBag
    /\ accepted = [k \in CardKeys |-> 0]
    /\ now = 0
    /\ response = [op |-> "none", code |-> 0, match |-> FALSE]
    /\ txns = [t \in TxnIds |-> IdleTxn]
    /\ meal_plans \in Histories
    /\ meal_plan_seq = Cardinality(DOMAIN meal_plans)
    /\ dietary_rules \in {(1 :> r) : r \in RuleRows}
    /\ request = NoRequest
    /\ evaluations = << >>
    /\ pantry_staples = {}
    /\ shopping_lists = << >>
    /\ shopping_items = EmptyBag
    /\ ratings = {}
    /\ NoImports

\* the candidate dates: the last two days, with plan rows before, on and after
CandidateDays == {MaxDay - 1, MaxDay}
\* the weeks asked for: one holding every day, one starting on the last day
WeekStarts == {0, MaxDay}

NextRules ==
    \/ \E r \in CandidateIds, d \in CandidateDays : evaluate(r, d)
    \/ \E w \in WeekStarts : week_rule_status(w)

SpecRules == InitRules /\ [][NextRules]_vars

(***************************************************************************)
(* The planner (api/app/routers/planner.py) and the rating handler         *)
(* (api/app/routers/ratings.py), one request at a time.  The cooking       *)
(* history and taste profile tables are not followed.                      *)
(***************************************************************************)
\* the primary keys of meal_plan the planner specification follows
PlannerIds == {1, 2}

\* MealPlanUpdate.status is any string (schemas.py:173)
StatusInputs == PlanStatuses \cup {"eaten"}

\* the users who rate: a seeded user and an id no user has
RaterIds == {1, 4}

\* the rules the planner evaluates: the same recipe not within a day, and
\* chicken at most once a week
PlannerRules ==
    (1 :> Rule("no_repeat_within_days", ("min_days_between_repeat" :> JInt(1))))
    @@ (2 :> Rule("protein_max_per_week",
                  ("protein" :> JStr("chicken") @@ "max" :> JInt(1)
                   @@ "period_days" :> JInt(7))))

\* models.py:207  status defaults to "planned"
NewPlan(date, recipe_id) == [date |-> date, recipe_id |-> recipe_id, status |-> "planned"]

\* planner.py:130-169  POST /api/planner
create_plan_entry_Blocking(date, recipe_id) ==
    /\ meal_plan_seq + 1 \in PlannerIds
    /\ request' = [date |-> date, recipe_id |-> recipe_id]
    /\ IF recipe_id \notin RecipeIds
       THEN /\ response' = [op |-> "create_plan_entry", code |-> 404, match |-> FALSE]
            /\ UNCHANGED <<meal_plans, meal_plan_seq, evaluations>>
       ELSE /\ evaluations' = evaluate_rules(meal_plans, dietary_rules, date, recipe_id)
            /\ IF \E id \in DOMAIN evaluations' : evaluations'[id].status = "violated"
               THEN /\ response' = [op |-> "create_plan_entry", code |-> 409, match |-> FALSE]
                    /\ UNCHANGED <<meal_plans, meal_plan_seq>>
               ELSE /\ meal_plans' = meal_plans @@ ((meal_plan_seq + 1) :> NewPlan(date, recipe_id))
                    /\ meal_plan_seq' = meal_plan_seq + 1
                    /\ response' = [op |-> "create_plan_entry", code |-> 201, match |-> FALSE]
    /\ UNCHANGED <<swipeVars, importVars, ratings, dietary_rules, pantry_staples, shopping_lists,
                   shopping_items>>
create_plan_entry(date, recipe_id) ==
    /\ meal_plan_seq + 1 \in PlannerIds
    /\ request' = [date |-> date, recipe_id |-> recipe_id]
    /\ IF recipe_id \notin RecipeIds
       THEN /\ response' = [op |-> "create_plan_entry", code |-> 404, match |-> FALSE]
            /\ UNCHANGED <<meal_plans, meal_plan_seq, evaluations>>
       ELSE /\ evaluations' = evaluate_rules(meal_plans, dietary_rules, date, recipe_id)
            /\ meal_plans' = meal_plans @@ ((meal_plan_seq + 1) :> NewPlan(date, recipe_id))
            /\ meal_plan_seq' = meal_plan_seq + 1
            /\ response' = [op |-> "create_plan_entry", code |-> 201, match |-> FALSE]
    /\ UNCHANGED <<swipeVars, importVars, ratings, dietary_rules, pantry_staples, shopping_lists,
                   shopping_items>>

\* the bodies of PUT /api/planner/{id}: one field set, or none (schemas.py:169-174)
NoUpdate == [date |-> NullInt, recipe_id |-> NullInt, status |-> NULL]
UpdateInputs ==
    {NoUpdate}
    \cup {[NoUpdate EXCEPT !.date = d] : d \in Days}
    \cup {[NoUpdate EXCEPT !.recipe_id = r] : r \in CandidateIds}
    \cup {[NoUpdate EXCEPT !.status = st] : st \in StatusInputs}

\* planner.py:172-189  PUT /api/planner/{id}: every field given is assigned;
\* a recipe_id no recipe has fails the foreign key at the flush
update_plan_entry(plan_id, data) ==
    /\ IF plan_id \notin DOMAIN meal_plans
       THEN /\ response' = [op |-> "update_plan_entry", code |-> 404, match |-> FALSE]
            /\ UNCHANGED meal_plans
       ELSE IF data.recipe_id # NullInt /\ data.recipe_id \notin RecipeIds
       THEN /\ response' = [op |-> "update_plan_entry", code |-> 500, match |-> FALSE]
            /\ UNCHANGED meal_plans
       ELSE /\ meal_plans' = [meal_plans EXCEPT ![plan_id] =
                [date |-> IF data.date # NullInt THEN data.date ELSE @.date,
                 recipe_id |-> IF data.recipe_id # NullInt
                               THEN data.recipe_id ELSE @.recipe_id,
                 status |-> IF data.status # NULL THEN data.status ELSE @.status]]
            /\ response' = [op |-> "update_plan_entry", code |-> 200, match |-> FALSE]
    /\ UNCHANGED <<swipeVars, importVars, ratings, meal_plan_seq, dietary_rules, request, evaluations,
                   pantry_staples, shopping_lists, shopping_items>>

\* planner.py:192-202  DELETE /api/planner/{id}
delete_plan_entry(plan_id) ==
    /\ IF plan_id \notin DOMAIN meal_plans
       THEN /\ response' = [op |-> "delete_plan_entry", code |-> 404, match |-> FALSE]
            /\ UNCHANGED meal_plans
       ELSE /\ meal_plans' = [p \in DOMAIN meal_plans \ {plan_id} |-> meal_plans[p]]
            /\ response' = [op |-> "delete_plan_entry", code |-> 204, match |-> FALSE]
    /\ UNCHANGED <<swipeVars, importVars, ratings, meal_plan_seq, dietary_rules, request, evaluations,
                   pantry_staples, shopping_lists, shopping_items>>

\* ratings.py:67-76  the planned entries of the recipe on the cooked date
PlannedOn(plans, recipe_id, cooked_at) ==
    {p \in DOMAIN plans :
        /\ plans[p].recipe_id = recipe_id
        /\ plans[p].date = cooked_at
        /\ plans[p].status = "planned"}

\* ratings.py:22-107  POST /api/ratings: the rating is stored and the entry
\* found is marked cooked; scalar_one_or_none raises when two entries are
\* found, and the request's transaction is rolled back (database.py:28-36).
\* Ratings that differ in stars or notes only are not told apart.
create_rating(recipe_id, user_id, cooked_at) ==
    /\ IF recipe_id \notin RecipeIds \/ user_id \notin {1, 2, 3}
       THEN /\ response' = [op |-> "create_rating", code |-> 404, match |-> FALSE]
            /\ UNCHANGED <<meal_plans, ratings>>
       ELSE IF Cardinality(PlannedOn(meal_plans, recipe_id, cooked_at)) > 1
       THEN /\ response' = [op |-> "create_rating", code |-> 500, match |-> FALSE]
            /\ UNCHANGED <<meal_plans, ratings>>
       ELSE /\ ratings' = ratings \cup {[recipe_id |-> recipe_id, user_id |-> user_id,
                                         cooked_at |-> cooked_at]}
            /\ meal_plans' =
                [p \in DOMAIN meal_plans |->
                    IF p \in PlannedOn(meal_plans, recipe_id, cooked_at)
                    THEN [meal_plans[p] EXCEPT !.status = "cooked"]
                    ELSE meal_plans[p]]
            /\ response' = [op |-> "create_rating", code |-> 201, match |-> FALSE]
    /\ request' = [date |-> cooked_at, recipe_id |-> recipe_id]
    /\ UNCHANGED <<swipeVars, importVars, meal_plan_seq, dietary_rules, evaluations,
                   pantry_staples, shopping_lists, shopping_items>>

InitPlanner ==
    /\ swipe_sessions = << >>
    /\ swipe_cards = << >>
    /\ swipe_matches = EmptyBag
    /\ accepted = [k \in CardKeys |-> 0]
    /\ now = 0
    /\ response = [op |-> "none", code |-> 0, match |-> FALSE]
    /\ txns = [t \in TxnIds |-> IdleTxn]
    /\ meal_plans = << >>
    /\ meal_plan_seq = 0
    /\ dietary_rules = PlannerRules
    /\ request = NoRequest
    /\ evaluations = << >>
    /\ pantry_staples = {}
    /\ shopping_lists = << >>
    /\ shopping_items = EmptyBag
    /\ ratings = {}
    /\ NoImports

NextPlanner ==
    \/ \E d \in Days, r \in CandidateIds : create_plan_entry(d, r)
    \/ \E p \in PlannerIds, data \in UpdateInputs : update_plan_entry(p, data)
    \/ \E p \in PlannerIds : delete_plan_entry(p)

SpecPlanner == InitPlanner /\ [][NextPlanner]_vars

(***************************************************************************)
(* Specification of the rating requests: the meal plan is any of a bounded *)
(* set, and recipes are rated.                                             *)
(***************************************************************************)
InitRating ==
    /\ swipe_sessions = << >>
    /\ swipe_cards = << >>
    /\ swipe_matches = EmptyBag
    /\ accepted = [k \in CardKeys |-> 0]
    /\ now = 0
    /\ response = [op |-> "none", code |-> 0, match |-> FALSE]
    /\ txns = [t \in TxnIds |-> IdleTxn]
    /\ meal_plans \in Histories
    /\ meal_plan_seq = Cardinality(DOMAIN meal_plans)
    /\ dietary_rules = << >>
    /\ request = NoRequest
    /\ evaluations = << >>
    /\ pantry_staples = {}
    /\ shopping_lists = << >>
    /\ shopping_items = EmptyBag
    /\ ratings = {}
    /\ NoImports

NextRating == \E r \in CandidateIds, u \in RaterIds, d \in Days : create_rating(r, u, d)

SpecRating == InitRating /\ [][NextRating]_vars

(***************************************************************************)
(* The shopping list generator (api/app/services/shopping_generator.py).   *)
(* Quantities are whole numbers; the aisle of an item is not followed.     *)
(***************************************************************************)
\* the primary keys of shopping_lists the model follows: one list
ListIds == {1}

\* the ingredients table; names are stored lower-cased and trimmed
\* (recipe_importer.py:201-203)
IngredientTable == (1 :> [name |-> "onion", category |-> "produce"])

\* the recipe_ingredients rows of each recipe; a null quantity is NullInt
RecipeIngredients ==
    [r \in RecipeIds |->
        IF r = 1
        THEN <<[ingredient_id |-> 1, raw_text |-> "2 cups onion, diced",
                quantity |-> 2, unit |-> "cups"],
               [ingredient_id |-> NullInt, raw_text |-> "Salt ",
                quantity |-> NullInt, unit |-> ""],
               [ingredient_id |-> NullInt, raw_text |-> "butter",
                quantity |-> 1, unit |-> "tbsp"]>>
        ELSE <<[ingredient_id |-> NullInt, raw_text |-> "Onion ",
                quantity |-> 2, unit |-> "cups"],
               [ingredient_id |-> NullInt, raw_text |-> "butter",
                quantity |-> 3, unit |-> "g"]>>]

\* the names add_pantry_staple (shopping.py:100-107) stores, as typed
StapleNames == {"Salt", "onion"}

\* shopping_generator.py:104, 117  name.lower().strip(), on the model's names
Normalize_Identity(name) == name
Normalize(name) ==
    IF name = "Onion " THEN "onion"
    ELSE IF name \in {"Salt ", "Salt"} THEN "salt"
    ELSE name

\* shopping_generator.py:53-64  the week's meal plans that are not skipped
PlansInWeek_WithSkipped(plans, week_of) ==
    {p \in DOMAIN plans : plans[p].date >= week_of /\ plans[p].date <= week_of + 6}
PlansInWeek(plans, week_of) ==
    {p \in DOMAIN plans :
        /\ plans[p].date >= week_of
        /\ plans[p].date <= week_of + 6
        /\ plans[p].status # "skipped"}

\* shopping_generator.py:83-90  the ingredient rows read, one per planned
\* entry and row of its recipe: <<plan id, row number>>
IngredientRows_OncePerRecipe(plans, week_of) ==
    UNION {{<<p, i>> : i \in DOMAIN RecipeIngredients[plans[p].recipe_id]} :
           p \in {q \in PlansInWeek(plans, week_of) :
                    \A o \in PlansInWeek(plans, week_of) :
                        plans[o].recipe_id = plans[q].recipe_id => q <= o}}
IngredientRows(plans, week_of) ==
    UNION {{<<p, i>> : i \in DOMAIN RecipeIngredients[plans[p].recipe_id]} :
           p \in PlansInWeek(plans, week_of)}

RowOf(plans, pi) == RecipeIngredients[plans[pi[1]].recipe_id][pi[2]]

\* shopping_generator.py:92-102  the ingredient's name, or the raw text
IngName(ing) ==
    IF ing.ingredient_id # NullInt /\ ing.ingredient_id \in DOMAIN IngredientTable
    THEN IngredientTable[ing.ingredient_id].name
    ELSE ing.raw_text

\* shopping_generator.py:104  the rows aggregated under a key
RowsOfKey(plans, week_of, key) ==
    {pi \in IngredientRows(plans, week_of) : Normalize(IngName(RowOf(plans, pi))) = key}

\* shopping_generator.py:108  if ing.quantity: neither null nor zero
HasQuantity(ing) == ing.quantity # NullInt /\ ing.quantity # 0

RECURSIVE SumQuantity(_, _)
\* shopping_generator.py:109  aggregated[key]["quantity"] += ing.quantity
SumQuantity(plans, rows) ==
    IF rows = {} THEN 0
    ELSE LET pi == CHOOSE x \in rows : TRUE
         IN (IF HasQuantity(RowOf(plans, pi)) THEN RowOf(plans, pi).quantity ELSE 0)
            + SumQuantity(plans, rows \ {pi})

\* shopping_generator.py:110-111  the first non-empty unit of a row with a
\* quantity; the rows come in the order the SELECTs return them, which is
\* any order, so any such row's unit can be the first
UnitsOfKey(plans, rows) ==
    LET units == {RowOf(plans, pi).unit :
                    pi \in {x \in rows : /\ HasQuantity(RowOf(plans, x))
                                         /\ RowOf(plans, x).unit # ""}}
    IN IF units = {} THEN {""} ELSE units

\* shopping_generator.py:105  the name of the row read last: any row's
NamesOfKey(plans, rows) == {IngName(RowOf(plans, pi)) : pi \in rows}

\* shopping_generator.py:117  the normalized pantry staple names
pantry_names_Raw(staples) == staples
pantry_names(staples) == {Normalize(name) : name \in staples}

\* shopping_generator.py:104-111, 135-148  the keys that become items
ItemKeys(plans, week_of, staples) ==
    {Normalize(IngName(RowOf(plans, pi))) : pi \in IngredientRows(plans, week_of)}
        \ pantry_names(staples)

\* shopping_generator.py:141-147  the ShoppingItem of a key
ShoppingItem(list_id, name, quantity, unit) ==
    [list_id |-> list_id, name |-> name,
     quantity |-> IF quantity > 0 THEN quantity ELSE NullInt, unit |-> unit]

RECURSIVE ItemSets(_, _, _, _)
\* shopping_generator.py:135-148  the items added for a set of keys: one per
\* key, under each name and unit the order of the rows can give it
ItemSets(plans, week_of, list_id, keys) ==
    IF keys = {} THEN {{}}
    ELSE LET key == CHOOSE k \in keys : TRUE
             rows == RowsOfKey(plans, week_of, key)
         IN {rest \cup {ShoppingItem(list_id, name, SumQuantity(plans, rows), unit)} :
                rest \in ItemSets(plans, week_of, list_id, keys \ {key}),
                name \in NamesOfKey(plans, rows),
                unit \in UnitsOfKey(plans, rows)}

\* shopping.py:34-40, shopping_generator.py:33-165  POST /api/shopping/generate
generate_list(week_of) ==
    /\ Cardinality(DOMAIN shopping_lists) + 1 \in ListIds
    /\ LET id == Cardinality(DOMAIN shopping_lists) + 1
           plan_ids == PlansInWeek(meal_plans, week_of)
       IN /\ shopping_lists' = shopping_lists @@
                (id :> [week_of |-> week_of, meal_plan_ids |-> plan_ids])
          /\ IF plan_ids = {}
             THEN UNCHANGED shopping_items
             ELSE \E items \in ItemSets(meal_plans, week_of, id,
                                        ItemKeys(meal_plans, week_of, pantry_staples)) :
                    shopping_items' = shopping_items (+) SetToBag(items)
    /\ request' = [date |-> week_of, recipe_id |-> 0]
    /\ response' = [op |-> "generate_list", code |-> 201, match |-> FALSE]
    /\ UNCHANGED <<swipeVars, importVars, ratings, meal_plans, meal_plan_seq, dietary_rules, evaluations,
                   pantry_staples>>

(***************************************************************************)
(* Specification of the shopping generator: the meal plan and the pantry   *)
(* are any of a bounded set, and a list is generated from them.            *)
(***************************************************************************)
InitShopping ==
    /\ swipe_sessions = << >>
    /\ swipe_cards = << >>
    /\ swipe_matches = EmptyBag
    /\ accepted = [k \in CardKeys |-> 0]
    /\ now = 0
    /\ response = [op |-> "none", code |-> 0, match |-> FALSE]
    /\ txns = [t \in TxnIds |-> IdleTxn]
    /\ meal_plans \in Histories
    /\ meal_plan_seq = Cardinality(DOMAIN meal_plans)
    /\ dietary_rules = << >>
    /\ request = NoRequest
    /\ evaluations = << >>
    /\ pantry_staples \in SUBSET StapleNames
    /\ shopping_lists = << >>
    /\ shopping_items = EmptyBag
    /\ ratings = {}
    /\ NoImports

\* the weeks asked for: ending on day 0, starting on day 0, starting on day 1
WeekOfs == {0 - 6, 0, 1}

NextShopping == \E w \in WeekOfs : generate_list(w)

SpecShopping == InitShopping /\ [][NextShopping]_vars

(***************************************************************************)
(* The import router (api/app/routers/import_recipe.py) and the import     *)
(* pipeline (api/app/services/recipe_importer.py).  What a page, a photo   *)
(* and the AI service give is any of a bounded set; error messages are     *)
(* kept as the name of the exception.                                      *)
(***************************************************************************)
\* the jobs the model follows: two photo imports, and an id no job has
JobIds == {1, 2}
UnknownJob == 3

\* main.py:96-106  the rows of the users table
SeededUsers == {1, 2, 3}
\* the user_id of an import request: none, a seeded user, an id no user has
ImporterIds == {NullInt, 1, 4}

\* the clock is followed for MaxHours hours
MaxClock == MaxHours * 3600
\* the seconds that pass between two requests
Elapses == {3599, 3600}

\* import_recipe.py:53-61  allowed_types
allowed_types ==
    {"image/jpeg", "image/jpg", "image/png", "image/webp", "image/gif",
     "image/heic", "image/heif"}
\* the content types uploaded
ContentTypes == {"image/png", "text/plain"}

\* The dict an extraction returns, by the shape of its lists: the ingredients
\* are dicts (as the schema asks) or plain strings, the tags are strings,
\* numbers, or missing.
RecipeDatas == [ingredients : {"dicts", "strings"}, tags : {"strings", "numbers", "none"}]
\* no dict: the extraction returned None
NoData == [ingredients |-> "none", tags |-> "none"]
AiOutcomes == RecipeDatas \cup {NoData}
\* recipe_importer.py:58-71  the dict try_structured_extraction builds
SchemaData == [ingredients |-> "dicts", tags |-> "none"]
\* what the AI call of enrich_recipe_tags gives: a list of strings, a list of
\* numbers, an error, or no call because no API key is configured
EnrichOutcomes == {"strings", "numbers", "failed", "no_key"}

Result(status, error, recipe_id) ==
    [status |-> status, error |-> error, recipe_id |-> recipe_id]

\* ai_extractor.py:255-301  enrich_recipe_tags: the ingredients are read
\* before the try (266); every failure of the AI call returns the tags the
\* recipe had (299-301)
enrich_recipe_tags(data, outcome) ==
    IF outcome = "no_key" THEN [raised |-> FALSE, error |-> "", tags |-> data.tags]
    ELSE IF data.ingredients = "strings"
    THEN [raised |-> TRUE, error |-> "AttributeError", tags |-> data.tags]
    ELSE IF outcome = "failed" THEN [raised |-> FALSE, error |-> "", tags |-> data.tags]
    ELSE [raised |-> FALSE, error |-> "", tags |-> outcome]

\* the next primary key of the recipes table, after the recipes of RecipeTable
NextRecipeId(recs) == Cardinality(RecipeIds) + Cardinality(DOMAIN recs) + 1

\* db.add(log_entry); await db.flush()
AddLog(log, status, recipe_id) ==
    log @@ ((Cardinality(DOMAIN log) + 1) :> [status |-> status, recipe_id |-> recipe_id])

\* recipe_importer.py:317-323  the image downloaded, else the uploaded photo
ImagePath(downloaded, source_image_path) ==
    IF downloaded THEN "/images/recipe" ELSE source_image_path

\* recipe_importer.py:213-375  save_recipe_data on a session holding the
\* tables recs and log.  The original text is built before the try (230-246):
\* ing.get on a string raises out of the function.  A user_id no user has
\* fails the flush of the recipe (265) on the foreign key models.py:88; the
\* except branch then flushes the log entry on the same session (372-374),
\* which raises again because a session whose flush failed must be rolled
\* back first.  A tag that is no string raises inside the try (310), after
\* the recipe was flushed: the failed result is returned and the recipe row
\* stays in the session.
save_recipe_data(recs, log, data, user_id, source_image_path, downloaded) ==
    LET id == NextRecipeId(recs)
        row == [created_by |-> user_id,
                image_path |-> ImagePath(downloaded, source_image_path)]
    IN IF data.ingredients = "strings"
       THEN [raised |-> TRUE, error |-> "AttributeError",
             result |-> NoResult, recipes |-> recs, import_log |-> log]
       ELSE IF user_id # NullInt /\ user_id \notin SeededUsers
       THEN [raised |-> TRUE, error |-> "PendingRollbackError",
             result |-> NoResult, recipes |-> recs, import_log |-> log]
       ELSE IF data.tags = "numbers"
       THEN [raised |-> FALSE, error |-> "",
             result |-> Result("failed", "AttributeError", 0),
             recipes |-> recs @@ (id :> [row EXCEPT !.image_path = ""]),
             import_log |-> AddLog(log, "failed", NullInt)]
       ELSE [raised |-> FALSE, error |-> "",
             result |-> Result("success", "", id),
             recipes |-> recs @@ (id :> row),
             import_log |-> AddLog(log, "success", id)]

\* the pages a URL can lead to: whether the fetch succeeds, whether the page
\* carries schema.org data, what the AI extracts from the page, what the
\* tag enrichment gives, and whether the image downloads
\* (what the pipeline never asks for is left at one value)
Pages ==
    {p \in [fetch : BOOLEAN, schema : BOOLEAN, ai : AiOutcomes,
             enrich : EnrichOutcomes, image : BOOLEAN] :
        /\ ~p.fetch => (~p.schema /\ p.ai = NoData /\ ~p.image)
        /\ p.schema => p.ai = NoData
        /\ ~p.schema => p.enrich = "no_key"
        /\ (~p.schema /\ p.ai = NoData) => ~p.image}
\* the photos uploaded: what the AI extracts and what the enrichment gives
Photos ==
    {p \in [data : AiOutcomes, enrich : EnrichOutcomes] :
        (p.data = NoData \/ p.data.tags # "none") => p.enrich = "no_key"}

\* recipe_importer.py:378-437  import_recipe_from_url on a session holding
\* the tables recs and log
import_recipe_from_url(recs, log, page, user_id) ==
    LET recipe_data == IF page.schema THEN SchemaData ELSE page.ai
        enriched == enrich_recipe_tags(recipe_data, page.enrich)
    IN IF ~page.fetch
       THEN [raised |-> FALSE, error |-> "",
             result |-> Result("failed", "Failed to fetch URL", 0),
             recipes |-> recs, import_log |-> AddLog(log, "failed", NullInt)]
       ELSE IF recipe_data = NoData
       THEN [raised |-> FALSE, error |-> "",
             result |-> Result("failed", "Could not extract recipe data", 0),
             recipes |-> recs, import_log |-> AddLog(log, "failed", NullInt)]
       ELSE IF page.schema
       THEN save_recipe_data(recs, log, [recipe_data EXCEPT !.tags = enriched.tags],
                             user_id, "", page.image)
       ELSE save_recipe_data(recs, log, recipe_data, user_id, "", page.image)

\* import_recipe.py:26-38  POST /api/recipes/import; an exception rolls the
\* request's session back (database.py:28-36) and answers 500
import_from_url(page, user_id) ==
    /\ Cardinality(DOMAIN import_log) < MaxImports
    /\ LET r == import_recipe_from_url(recipes, import_log, page, user_id)
       IN IF r.raised
          THEN /\ response' = [op |-> "import_from_url", code |-> 500, match |-> FALSE]
               /\ result' = NoBody
               /\ UNCHANGED <<recipes, import_log>>
          ELSE /\ response' = [op |-> "import_from_url", code |-> 200, match |-> FALSE]
               /\ result' = [NoBody EXCEPT !.import = r.result]
               /\ recipes' = r.recipes
               /\ import_log' = r.import_log
    /\ UNCHANGED <<swipeVars, mealVars, import_jobs, tasks, clock>>

\* import_recipe.py:41-112  POST /api/recipes/import/photo: the job is stored
\* and its task created before the handler returns; job ids are fresh
import_from_photo(content_type, too_large, user_id) ==
    /\ Cardinality(DOMAIN import_jobs) + 1 \in JobIds
    /\ IF content_type \notin allowed_types \/ too_large
       THEN /\ response' = [op |-> "import_from_photo", code |-> 400, match |-> FALSE]
            /\ result' = NoBody
            /\ UNCHANGED <<import_jobs, tasks>>
       ELSE LET job_id == Cardinality(DOMAIN import_jobs) + 1
                job == [status |-> "processing", created_at |-> clock, result |-> NoResult]
            IN /\ import_jobs' = import_jobs @@ (job_id :> job)
               /\ tasks' = tasks @@ (job_id :> user_id)
               /\ response' = [op |-> "import_from_photo", code |-> 200, match |-> FALSE]
               /\ result' = [NoBody EXCEPT !.job_id = job_id, !.job = job]
    /\ UNCHANGED <<swipeVars, mealVars, clock, recipes, import_log>>

\* import_recipe.py:131-139, 159-163, 168-176  the job with its status and
\* result replaced
Finished_Processing(job, status, res) == [job EXCEPT !.result = res]
Finished(job, status, res) == [job EXCEPT !.status = status, !.result = res]

\* import_recipe.py:115-176  the background task of a job.  It writes the
\* job table once, when it ends; whatever is raised is caught (166) and
\* stored.  The task has its own session, committed after a save that
\* returned (147-157) and discarded when the save raised.
process_photo_import(job_id, photo) ==
    /\ job_id \in DOMAIN tasks
    /\ LET user_id == tasks[job_id]
           job == import_jobs[job_id]
           enriched == IF photo.data.tags = "none"
                       THEN enrich_recipe_tags(photo.data, photo.enrich)
                       ELSE [raised |-> FALSE, error |-> "", tags |-> photo.data.tags]
           saved == save_recipe_data(recipes, import_log,
                                     [photo.data EXCEPT !.tags = enriched.tags],
                                     user_id, "/images/photo_import", FALSE)
       IN IF photo.data = NoData
          THEN /\ import_jobs' = [import_jobs EXCEPT ![job_id] =
                    Finished(job, "failed",
                             Result("failed", "Could not extract recipe from image", 0))]
               /\ UNCHANGED <<recipes, import_log>>
          ELSE IF enriched.raised
          THEN /\ import_jobs' = [import_jobs EXCEPT ![job_id] =
                    Finished(job, "failed", Result("failed", enriched.error, 0))]
               /\ UNCHANGED <<recipes, import_log>>
          ELSE IF saved.raised
          THEN /\ import_jobs' = [import_jobs EXCEPT ![job_id] =
                    Finished(job, "failed", Result("failed", saved.error, 0))]
               /\ UNCHANGED <<recipes, import_log>>
          ELSE /\ import_jobs' = [import_jobs EXCEPT ![job_id] =
                    Finished(job,
                             IF saved.result.status = "success" THEN "success" ELSE "failed",
                             saved.result)]
               /\ recipes' = saved.recipes
               /\ import_log' = saved.import_log
    /\ tasks' = [j \in DOMAIN tasks \ {job_id} |-> tasks[j]]
    /\ UNCHANGED <<swipeVars, mealVars, clock, response, result>>

\* import_recipe.py:179-185  GET /api/recipes/import/jobs/{job_id}
get_import_job(job_id) ==
    /\ IF job_id \notin DOMAIN import_jobs
       THEN /\ response' = [op |-> "get_import_job", code |-> 404, match |-> FALSE]
            /\ result' = [NoBody EXCEPT !.job_id = job_id]
       ELSE /\ response' = [op |-> "get_import_job", code |-> 200, match |-> FALSE]
            /\ result' = [NoBody EXCEPT !.job_id = job_id, !.job = import_jobs[job_id]]
    /\ UNCHANGED <<swipeVars, mealVars, import_jobs, tasks, clock, recipes, import_log>>

\* import_recipe.py:191, 195  created_at > time.time() - 3600
Recent(jobs, t) == {j \in DOMAIN jobs : jobs[j].created_at > t - 3600}

RECURSIVE NewestFirst(_, _)
\* import_recipe.py:198  jobs.sort(key=created_at, reverse=True): a stable
\* sort of the dict's items, which come in insertion order
NewestFirst(jobs, ids) ==
    IF ids = {} THEN << >>
    ELSE LET first == CHOOSE j \in ids :
                        \A k \in ids :
                            \/ jobs[j].created_at > jobs[k].created_at
                            \/ jobs[j].created_at = jobs[k].created_at /\ j <= k
             rest == NewestFirst(jobs, ids \ {first})
         IN [i \in 1..(Cardinality(ids)) |-> IF i = 1 THEN first ELSE rest[i - 1]]

\* import_recipe.py:188-199  GET /api/recipes/import/jobs: the listing, as
\* the job ids in the order returned
list_import_jobs_Evicting ==
    /\ response' = [op |-> "list_import_jobs", code |-> 200, match |-> FALSE]
    /\ result' = [NoBody EXCEPT !.jobs = NewestFirst(import_jobs, Recent(import_jobs, clock))]
    /\ import_jobs' = [j \in Recent(import_jobs, clock) |-> import_jobs[j]]
    /\ UNCHANGED <<swipeVars, mealVars, tasks, clock, recipes, import_log>>
list_import_jobs ==
    /\ response' = [op |-> "list_import_jobs", code |-> 200, match |-> FALSE]
    /\ result' = [NoBody EXCEPT !.jobs = NewestFirst(import_jobs, Recent(import_jobs, clock))]
    /\ UNCHANGED <<swipeVars, mealVars, import_jobs, tasks, clock, recipes, import_log>>

\* time passes between two requests
elapse(seconds) ==
    /\ clock + seconds <= MaxClock
    /\ clock' = clock + seconds
    /\ UNCHANGED <<swipeVars, mealVars, response, import_jobs, tasks, recipes,
                   import_log, result>>

(***************************************************************************)
(* Specifications of the import router, for a process that has just        *)
(* started: the photo imports with the job table, and the URL imports.     *)
(***************************************************************************)
NextImport ==
    \/ \E ct \in ContentTypes, too_large \in BOOLEAN, u \in ImporterIds :
            import_from_photo(ct, too_large, u)
    \/ \E j \in JobIds, photo \in Photos : process_photo_import(j, photo)
    \/ \E j \in JobIds \cup {UnknownJob} : get_import_job(j)
    \/ list_import_jobs
    \/ \E seconds \in Elapses : elapse(seconds)

SpecImport == Init /\ [][NextImport]_vars

NextUrlImport == \E page \in Pages, u \in ImporterIds : import_from_url(page, u)

SpecUrlImport == Init /\ [][NextUrlImport]_vars

\* the event loop runs every task created by asyncio.create_task
\* (import_recipe.py:103-105)
SpecImportLive ==
    SpecImport /\ \A j \in JobIds : WF_vars(\E photo \in Photos : process_photo_import(j, photo))

(***************************************************************************)
(* Properties                                                              *)
(***************************************************************************)
Positive == {"like", "superlike"}

\* the number of SwipeMatch rows for (session, recipe)
Rows(s, r) == CopiesIn(MatchRow(s, r), swipe_matches)

\* both users' committed cards for (session, recipe) carry like or superlike
BothLiked(s, r) ==
    \A u \in COUPLE_IDS :
        /\ <<s, u, r>> \in DOMAIN swipe_cards
        /\ swipe_cards[<<s, u, r>>].decision \in Positive

Undecided(s) ==
    {k \in DOMAIN swipe_cards : k[1] = s /\ swipe_cards[k].decision = NULL}

Database == <<swipe_sessions, swipe_cards, swipe_matches, accepted>>

\* C1: with requests processed one at a time, a SwipeMatch row for (session,
\* recipe) exists if and only if both users' cards for it are like/superlike.
C1_MatchIffBothLiked ==
    \A s \in SessionIds, r \in RecipeIds : (Rows(s, r) >= 1) <=> BothLiked(s, r)

C1_Witness ==
    \E s \in SessionIds, r \in RecipeIds :
        /\ Rows(s, r) = 1
        /\ swipe_cards[<<s, 1, r>>].decision = "like"
        /\ swipe_cards[<<s, 2, r>>].decision = "superlike"

\* C2: with requests processed one at a time, accepted and rejected alike,
\* no (session, recipe) pair ever has more than one SwipeMatch row.
C2_AtMostOneMatch ==
    \A s \in SessionIds, r \in RecipeIds : Rows(s, r) <= 1

C2_Witness ==
    /\ response.op = "swipe" /\ response.code = 400
    /\ \E s \in SessionIds, r \in RecipeIds : Rows(s, r) = 1

\* C3: under interleaved read-committed transactions, once both users' like or
\* superlike decisions on a recipe are committed, a SwipeMatch row exists.
C3_ConcurrentLikesMatch ==
    \A s \in SessionIds, r \in RecipeIds : BothLiked(s, r) => Rows(s, r) >= 1

C5_AtomicCheckThenSet ==
    /\ \A k \in CardKeys : accepted[k] <= 1
    /\ \A s \in SessionIds, r \in RecipeIds : Rows(s, r) <= 1

\* C6: a swipe request on a card whose decision is already set is answered 400
\* and leaves cards, matches and session status as they were: every step is
\* either such an unchanging 400 answer or is no swipe on a decided card.
C6_DuplicateRejected ==
    [][\/ /\ response'.op = "swipe" /\ response'.code = 400
          /\ UNCHANGED Database
       \/ \A s \in SessionIds, u \in COUPLE_IDS, r \in RecipeIds, d \in Decisions :
            ~(/\ <<s, u, r>> \in DOMAIN swipe_cards
              /\ swipe_cards[<<s, u, r>>].decision # NULL
              /\ swipe(s, u, r, d))]_vars

C6_Witness ==
    /\ response.op = "swipe" /\ response.code = 400
    /\ \E k \in DOMAIN swipe_cards : swipe_cards[k].decision # NULL

\* C7: with requests processed one at a time, a session's status is completed
\* if and only if none of its cards has a null decision.
C7_CompletedIffNoneUndecided ==
    \A s \in DOMAIN swipe_sessions :
        (swipe_sessions[s].status = "completed") <=> (Undecided(s) = {})

C7_Witness ==
    \E s \in DOMAIN swipe_sessions :
        /\ swipe_sessions[s].status = "completed"
        /\ response.op = "swipe" /\ response.code = 200

\* C8: under interleaved transactions, once every card of a session has a
\* committed decision and no swipe is in flight, the session is completed.
C8_CompletedAfterRace ==
    \A s \in DOMAIN swipe_sessions :
        (/\ Undecided(s) = {}
         /\ \A t \in TxnIds : txns[t].pc = "idle")
        => swipe_sessions[s].status = "completed"

Scenario ==
    [k \in {1} \X COUPLE_IDS \X RecipeIds |->
        IF k[2] = 1 /\ k[3] = 2 THEN "dislike" ELSE "like"]

\* the session holds pool {R1, R2} and every decision made so far is the
\* example's
ScenarioSoFar ==
    /\ 1 \in DOMAIN swipe_sessions
    /\ swipe_sessions[1].recipe_pool = RecipeIds
    /\ \A k \in DOMAIN Scenario : swipe_cards[k].decision \in {NULL, Scenario[k]}

ScenarioDone ==
    ScenarioSoFar /\ \A k \in DOMAIN Scenario : swipe_cards[k].decision = Scenario[k]

Matched(s) == {r \in RecipeIds : Rows(s, r) >= 1}

\* C10 (as stated): after the example's four swipes, in any order, the matched
\* recipes are {R1, R2} and the session is completed.
C10_ScenarioMatchesBoth ==
    ScenarioDone => (Matched(1) = {1, 2} /\ swipe_sessions[1].status = "completed")

\* C10 (amended): after the example's four swipes, in any order, the matched
\* recipes are {R1} alone, and the session is completed exactly when all four
\* swipes have been processed.
C10_ScenarioMatchesR1 ==
    ScenarioSoFar =>
        /\ ScenarioDone => Matched(1) = {1}
        /\ Matched(1) \subseteq {1}
        /\ (swipe_sessions[1].status = "completed") <=> ScenarioDone

C10_Witness == ScenarioDone

\* the cards of session s
CardsOf(s) == {k \in DOMAIN swipe_cards : k[1] = s}

\* C11: right after a session is created from a non-empty pool it has exactly
\* one card per (couple user, pool recipe) pair, 2 x |pool| cards, each with
\* a null decision; the session is active and has no SwipeMatch row.
C11_NewSessionCards ==
    (response.op = "create_session" /\ response.code = 201) =>
        LET s == Cardinality(DOMAIN swipe_sessions)
            pool == swipe_sessions[s].recipe_pool
        IN /\ pool # {}
           /\ CardsOf(s) = {s} \X {1, 2} \X pool
           /\ Cardinality(CardsOf(s)) = 2 * Cardinality(pool)
           /\ \A k \in CardsOf(s) : swipe_cards[k].decision = NULL
           /\ swipe_sessions[s].status = "active"
           /\ \A r \in RecipeIds : Rows(s, r) = 0

C11_Witness ==
    /\ response.op = "create_session" /\ response.code = 201
    /\ Cardinality(CardsOf(1)) = 4

(***************************************************************************)
(* Properties of the rules engine                                          *)
(***************************************************************************)
\* the list in `evaluations` was returned by evaluate for `request`
Evaluated == response.op = "evaluate"

\* the rule in the table is active, of type ty, and its config gives number
\* values to the keys ks
RuleIs(ty, ks) ==
    /\ 1 \in DOMAIN dietary_rules
    /\ dietary_rules[1].active
    /\ dietary_rules[1].rule_type = ty
    /\ \A k \in ks : /\ k \in DOMAIN dietary_rules[1].config
                     /\ dietary_rules[1].config[k].kind = "int"

\* the number a key of the rule's config gives
Cfg(k) == dietary_rules[1].config[k].num

\* a recipe carries the chicken tag; the rules name it Chicken or chicken
CarriesChicken(r) == r \in RecipeIds /\ "chicken" \in RecipeTags[r]

\* the count of the protein rules: the non-skipped chicken entries dated in
\* [date - period_days, date], plus 1 if the candidate carries the tag
WindowCount ==
    Cardinality({p \in DOMAIN meal_plans :
        /\ meal_plans[p].status \in {"planned", "cooked"}
        /\ CarriesChicken(meal_plans[p].recipe_id)
        /\ meal_plans[p].date >= request.date - Cfg("period_days")
        /\ meal_plans[p].date <= request.date})
    + (IF CarriesChicken(request.recipe_id) THEN 1 ELSE 0)

\* C12: a protein_max_per_week rule with max = M evaluates to violated when
\* the window count (candidate included) exceeds M, to warning when it equals
\* M, and to ok when it is below M.
C12_ProteinMaxThresholds ==
    (Evaluated /\ RuleIs("protein_max_per_week", {"max", "period_days"})) =>
        /\ evaluations[1].count = WindowCount
        /\ evaluations[1].status =
            (IF WindowCount > Cfg("max") THEN "violated"
             ELSE IF WindowCount = Cfg("max") THEN "warning" ELSE "ok")

\* the candidate is the third chicken entry of the window under max = 2
C12_Witness ==
    /\ Evaluated /\ RuleIs("protein_max_per_week", {"max", "period_days"})
    /\ Cfg("max") = 2
    /\ evaluations[1].status = "violated"
    /\ evaluations[1].count = 3
    /\ CarriesChicken(request.recipe_id)

\* the non-skipped placements of the candidate recipe on or before the date
Prior ==
    {p \in DOMAIN meal_plans :
        /\ meal_plans[p].recipe_id = request.recipe_id
        /\ meal_plans[p].status \in {"planned", "cooked"}
        /\ meal_plans[p].date <= request.date}

\* the days from the most recent prior placement to the candidate date
Gap == request.date - CHOOSE d \in {meal_plans[p].date : p \in Prior} :
                            \A p \in Prior : meal_plans[p].date <= d

\* C13: under a no_repeat_within_days rule with min_days = D, a recipe
\* evaluated D + 1 days after its most recent non-skipped placement is ok, and
\* evaluated 0..D days after it is violated with days_since equal to that gap.
C13_NoRepeatWindow ==
    (Evaluated /\ RuleIs("no_repeat_within_days", {"min_days_between_repeat"})
        /\ Prior # {}) =>
        /\ Gap = Cfg("min_days_between_repeat") + 1 => evaluations[1].status = "ok"
        /\ Gap <= Cfg("min_days_between_repeat") =>
            /\ evaluations[1].status = "violated"
            /\ evaluations[1].days_since = Gap

\* the recipe is evaluated exactly D = 1 days after its last placement, which
\* is the later of two
C13_Witness ==
    /\ Evaluated /\ RuleIs("no_repeat_within_days", {"min_days_between_repeat"})
    /\ Cfg("min_days_between_repeat") = 1
    /\ Cardinality(Prior) = 2
    /\ Gap = 1
    /\ evaluations[1].status = "violated"

\* C14: every evaluation evaluate_rules returns, whatever the rule's type and
\* config values, has a status in {ok, warning, violated}.
C14_StatusInContract ==
    Evaluated =>
        \A id \in DOMAIN evaluations :
            evaluations[id].status \in {"ok", "warning", "violated"}

\* C15: a rules engine call leaves the meal plan and the rules as they were,
\* and the same candidate evaluated again gives the same list.
C15_EvaluationReadOnly ==
    [][(response'.op \in {"evaluate", "week_rule_status"}) =>
            /\ meal_plans' = meal_plans
            /\ dietary_rules' = dietary_rules
            /\ (response'.op = response.op /\ request' = request)
                    => evaluations' = evaluations]_vars

\* the week status was computed over a plan with two entries, one rule violated
C15_Witness ==
    /\ response.op = "week_rule_status"
    /\ Cardinality(DOMAIN meal_plans) = 2
    /\ 1 \in DOMAIN evaluations
    /\ evaluations[1].status = "violated"

\* C16: a protein_min_per_period rule evaluates to warning exactly when the
\* window count (candidate included) is below min, to ok otherwise, and never
\* to violated.
C16_ProteinMinWarning ==
    (Evaluated /\ RuleIs("protein_min_per_period", {"min", "period_days"})) =>
        /\ evaluations[1].count = WindowCount
        /\ (evaluations[1].status = "warning") <=> (WindowCount < Cfg("min"))
        /\ evaluations[1].status \in {"ok", "warning"}

\* a skipped chicken entry lies in the window and the count is one short
C16_Witness ==
    /\ Evaluated /\ RuleIs("protein_min_per_period", {"min", "period_days"})
    /\ Cfg("min") = 2
    /\ evaluations[1].status = "warning"
    /\ evaluations[1].count = 1
    /\ \E p \in DOMAIN meal_plans :
        /\ meal_plans[p].status = "skipped"
        /\ CarriesChicken(meal_plans[p].recipe_id)
        /\ meal_plans[p].date = request.date

KnownRuleTypes ==
    {"protein_max_per_week", "protein_min_per_period", "no_repeat_within_days",
     "min_tag_per_week", "max_tag_per_week"}

\* C17: an active rule whose rule_type is none of the five known types
\* evaluates, for every candidate, to ok with the unknown-type message.
C17_UnknownTypeOk ==
    (Evaluated /\ 1 \in DOMAIN dietary_rules /\ dietary_rules[1].active
        /\ dietary_rules[1].rule_type \notin KnownRuleTypes) =>
        /\ DOMAIN evaluations = {1}
        /\ evaluations[1].status = "ok"
        /\ evaluations[1].message = "Unknown rule type"

\* a custom rule was evaluated for a recipe already planned on that date
C17_Witness ==
    /\ Evaluated /\ dietary_rules[1].active
    /\ dietary_rules[1].rule_type = "custom"
    /\ evaluations[1].status = "ok"
    /\ Prior # {}

(***************************************************************************)
(* Properties of the planner                                               *)
(***************************************************************************)
\* C18: a MealPlan is created planned and its status only ever moves planned
\* -> cooked or planned -> skipped: no step of a planner or rating request
\* takes an entry from cooked or skipped to another status, or leaves an entry
\* with a status outside {planned, cooked, skipped}.
C18_StatusTransitions ==
    [][\A p \in PlannerIds :
        /\ (p \notin DOMAIN meal_plans /\ p \in DOMAIN meal_plans')
                => meal_plans'[p].status = "planned"
        /\ (p \in DOMAIN meal_plans /\ p \in DOMAIN meal_plans')
                => \/ meal_plans'[p].status = meal_plans[p].status
                   \/ /\ meal_plans[p].status = "planned"
                      /\ meal_plans'[p].status \in {"cooked", "skipped"}]_vars

(***************************************************************************)
(* Properties of the shopping generator                                    *)
(***************************************************************************)
\* a list was generated for the week starting on request.date
Generated == response.op = "generate_list"

\* the non-skipped entries planned in the week of the generated list
WeekEntries ==
    {p \in DOMAIN meal_plans :
        /\ meal_plans[p].status \in {"planned", "cooked"}
        /\ meal_plans[p].date >= request.date
        /\ meal_plans[p].date <= request.date + 6}

\* the ShoppingItem rows of list 1, and those whose name, case-folded and
\* trimmed, is onion
Items == {it \in BagToSet(shopping_items) : it.list_id = 1}
OnionItems == {it \in Items : it.name \in {"onion", "Onion", "Onion ", "ONION"}}

\* C19: generating a list for a week with no non-skipped meal plan answers 201
\* and creates a ShoppingList with zero ShoppingItems.
C19_EmptyWeekEmptyList ==
    (Generated /\ WeekEntries = {}) =>
        /\ response.code = 201
        /\ 1 \in DOMAIN shopping_lists
        /\ shopping_lists[1].week_of = request.date
        /\ Items = {}

\* the week held entries, all of them skipped
C19_Witness ==
    /\ Generated /\ WeekEntries = {}
    /\ \E p \in DOMAIN meal_plans :
        /\ meal_plans[p].status = "skipped"
        /\ meal_plans[p].date >= request.date
        /\ meal_plans[p].date <= request.date + 6
    /\ 1 \in DOMAIN shopping_lists
    /\ Items = {}

\* C20: every recipe needs 2 cups of onion (named onion by one, "Onion " by
\* the other); when onion is no pantry staple the list of a week with n
\* non-skipped entries has exactly one onion item, of quantity 2n in cups:
\* 4 cups for two entries.
C20_SameUnitRowsSum ==
    (Generated /\ WeekEntries # {} /\ "onion" \notin pantry_staples) =>
        /\ Cardinality(OnionItems) = 1
        /\ \A it \in OnionItems :
            /\ CopiesIn(it, shopping_items) = 1
            /\ it.quantity = 2 * Cardinality(WeekEntries)
            /\ it.unit = "cups"

\* the two recipes are both planned in the week and the onion item says 4 cups
C20_Witness ==
    /\ Generated /\ "onion" \notin pantry_staples
    /\ {meal_plans[p].recipe_id : p \in WeekEntries} = {1, 2}
    /\ Cardinality(WeekEntries) = 2
    /\ \E it \in OnionItems : it.quantity = 4 /\ it.unit = "cups"

\* the ShoppingItem rows whose name, case-folded and trimmed, is butter, and
\* the number of week entries of a recipe
ButterItems == {it \in Items : it.name \in {"butter", "Butter", "butter "}}
EntriesOf(r) == Cardinality({p \in WeekEntries : meal_plans[p].recipe_id = r})

\* C21: quantities in differing units are never summed: recipe 1 needs 1 tbsp
\* of butter and recipe 2 needs 3 g; the butter item carries the unit of one
\* of them and its quantity is the total of the rows in that unit alone.
C21_DifferingUnitsNotSummed ==
    Generated =>
        \A it \in ButterItems :
            \/ it.unit = "tbsp" /\ it.quantity = 1 * EntriesOf(1)
            \/ it.unit = "g" /\ it.quantity = 3 * EntriesOf(2)

\* a name lower-cased and trimmed, for the names lists and staples carry
Folded(name) ==
    CASE name \in {"onion", "Onion", "Onion "} -> "onion"
      [] name \in {"salt", "Salt", "Salt "} -> "salt"
      [] OTHER -> name

\* C22: no item of a generated list has a name that, lower-cased and trimmed,
\* equals the lower-cased and trimmed name of a pantry staple.
C22_NoStapleOnList ==
    Generated =>
        \A it \in Items, staple \in pantry_staples :
            Folded(it.name) # Folded(staple)

\* Salt is a staple, a recipe of the week lists "Salt ", and the list has
\* items but none for salt
C22_Witness ==
    /\ Generated /\ "Salt" \in pantry_staples
    /\ EntriesOf(1) > 0
    /\ Items # {}
    /\ \A it \in Items : Folded(it.name) # "salt"

\* C23: the list of the week starting on request.date is drawn from exactly
\* the entries that are not skipped and dated request.date .. request.date+6:
\* it records those entries, has items only when there is one, an onion item
\* of 2 cups per such entry (a recipe planned twice counts twice), and a salt
\* item only when recipe 1, the one listing salt, is among them.
C23_WeekWindow ==
    Generated =>
        /\ shopping_lists[1].meal_plan_ids = WeekEntries
        /\ (WeekEntries = {}) <=> (Items = {})
        /\ "onion" \notin pantry_staples =>
            \A it \in OnionItems : it.quantity = 2 * Cardinality(WeekEntries)
        /\ "Salt" \notin pantry_staples =>
            ((EntriesOf(1) > 0) <=> (\E it \in Items : Folded(it.name) = "salt"))

\* the week ends on day 0 and recipe 1 is planned on day 0 and again on day 1,
\* the day after the week: it is counted once
C23_Witness ==
    /\ Generated /\ request.date = 0 - 6 /\ pantry_staples = {}
    /\ \E p, q \in DOMAIN meal_plans :
        /\ meal_plans[p] = [recipe_id |-> 1, date |-> 0, status |-> "planned"]
        /\ meal_plans[q] = [recipe_id |-> 1, date |-> 1, status |-> "planned"]
    /\ \E it \in OnionItems : it.quantity = 2

(***************************************************************************)
(* Properties of the import router                                         *)
(***************************************************************************)
Terminal == {"success", "failed"}

\* a job is processing, without a result, while its background task has not
\* run; once the task is gone the job is success with a success result, or
\* failed with a failed result that carries an error message
JobSettled(j) ==
    IF j \in DOMAIN tasks
    THEN import_jobs[j].status = "processing" /\ import_jobs[j].result = NoResult
    ELSE /\ import_jobs[j].status \in Terminal
         /\ import_jobs[j].result.status = import_jobs[j].status
         /\ import_jobs[j].status = "failed" => import_jobs[j].result.error # ""

\* a job enters the table as processing, and a success or failed job is
\* never written again
JobStep(j) ==
    /\ (j \notin DOMAIN import_jobs /\ j \in DOMAIN import_jobs')
            => import_jobs'[j].status = "processing"
    /\ (j \in DOMAIN import_jobs /\ import_jobs[j].status \in Terminal)
            => (j \in DOMAIN import_jobs' /\ import_jobs'[j] = import_jobs[j])

\* C24: a photo-import job is in the table as processing when its request has
\* returned; its background task raises nothing but ends by storing success
\* or failed, with the error message in the result of a failed job; every
\* processing job does end so; and a success or failed job never changes.
C24_JobLifecycle ==
    /\ [](\A j \in DOMAIN import_jobs : JobSettled(j))
    /\ []((response.op = "import_from_photo" /\ response.code = 200)
            => result.job_id \in DOMAIN import_jobs)
    /\ [][\A j \in JobIds : JobStep(j)]_vars
    /\ \A j \in JobIds :
        (j \in DOMAIN import_jobs /\ import_jobs[j].status = "processing")
            ~> (j \in DOMAIN import_jobs /\ import_jobs[j].status \in Terminal)

\* the save of a job's recipe raised, for a user_id no user has, and the job
\* is failed with that error; the other job succeeded
C24_Witness ==
    /\ DOMAIN import_jobs = JobIds /\ tasks = << >>
    /\ \E j, k \in JobIds :
        /\ import_jobs[j].status = "failed"
        /\ import_jobs[j].result.error = "PendingRollbackError"
        /\ import_jobs[k].status = "success"
        /\ import_jobs[k].result.recipe_id \in DOMAIN recipes

\* a sequence of job ids lists each of them once
Listing(seq) == {seq[i] : i \in DOMAIN seq}
NoRepeat(seq) == \A i, k \in DOMAIN seq : seq[i] = seq[k] => i = k

\* the step is the answer to a request on the job table as it stands
Answers(op) ==
    /\ response'.op = op
    /\ import_jobs' = import_jobs /\ clock' = clock

\* C25: no job ever leaves the job table or changes its creation time; a get
\* answers 200 with the stored job for every job created so far, and 404
\* only for an id no job has; a listing holds exactly the jobs created less
\* than 3600 seconds before it, each once, a newer job before an older one.
C25_JobsKeptListingFiltered ==
    /\ [][\A j \in DOMAIN import_jobs :
            /\ j \in DOMAIN import_jobs'
            /\ import_jobs'[j].created_at = import_jobs[j].created_at]_vars
    /\ [][Answers("get_import_job") =>
            IF result'.job_id \in DOMAIN import_jobs
            THEN response'.code = 200 /\ result'.job = import_jobs[result'.job_id]
            ELSE response'.code = 404]_vars
    /\ [][Answers("list_import_jobs") =>
            /\ response'.code = 200
            /\ NoRepeat(result'.jobs)
            /\ Listing(result'.jobs) =
                    {j \in DOMAIN import_jobs : clock - import_jobs[j].created_at < 3600}
            /\ \A i, k \in DOMAIN result'.jobs :
                    i < k => import_jobs[result'.jobs[i]].created_at
                                >= import_jobs[result'.jobs[k]].created_at]_vars

\* a listing made 3600 seconds after job 1 was created, and right after job
\* 2, holds job 2 alone, and job 1 is still in the table
C25_Witness ==
    /\ response.op = "list_import_jobs"
    /\ DOMAIN import_jobs = {1, 2}
    /\ clock - import_jobs[1].created_at = 3600
    /\ clock - import_jobs[2].created_at = 0
    /\ result.jobs = <<2>>

\* C26: a URL import never raises: the request is answered 200 with a result
\* that is failed with an error message, or success with the id of a recipe
\* row that now exists.
C26_AlwaysAResult ==
    response.op = "import_from_url" =>
        /\ response.code = 200
        /\ \/ result.import.status = "failed" /\ result.import.error # ""
           \/ /\ result.import.status = "success"
              /\ result.import.recipe_id \in DOMAIN recipes

(***************************************************************************)
(* Properties of the rating handler                                        *)
(***************************************************************************)
\* the entry is one a rating of recipe r cooked on day d is to mark
ToMark(plan, r, d) == plan.recipe_id = r /\ plan.date = d /\ plan.status = "planned"

\* C27: a rating request for an existing recipe and user (any answer but 404)
\* stores a rating of recipe request.recipe_id cooked on request.date, leaves
\* every planned entry of that recipe on that date cooked, and leaves every
\* other entry as it was.
C27_RatingMarksCooked ==
    [][(response'.op = "create_rating" /\ response'.code # 404) =>
        /\ \E row \in ratings' :
            row.recipe_id = request'.recipe_id /\ row.cooked_at = request'.date
        /\ DOMAIN meal_plans' = DOMAIN meal_plans
        /\ \A p \in DOMAIN meal_plans :
            IF ToMark(meal_plans[p], request'.recipe_id, request'.date)
            THEN meal_plans'[p] = [meal_plans[p] EXCEPT !.status = "cooked"]
            ELSE meal_plans'[p] = meal_plans[p]]_vars

(***************************************************************************)
(* Skipped entries and the rules engine                                    *)
(***************************************************************************)
\* the meal plan with entry p deleted
WithoutEntry(p) == [q \in DOMAIN meal_plans \ {p} |-> meal_plans[q]]

\* C28: skipped entries are invisible to the rules engine: what an evaluation
\* (of a candidate, or of a week) returned for the meal plan is what it
\* returns for the meal plan with any one skipped entry deleted, whatever
\* the rule.
C28_SkippedInvisible ==
    \A p \in DOMAIN meal_plans :
        meal_plans[p].status = "skipped" =>
            /\ Evaluated =>
                evaluations = evaluate_rules(WithoutEntry(p), dietary_rules,
                                             request.date, request.recipe_id)
            /\ response.op = "week_rule_status" =>
                evaluations = get_rule_status_for_week(WithoutEntry(p), dietary_rules,
                                                       request.date)

\* under a no-repeat rule the candidate recipe has a skipped entry on the
\* candidate date itself and no other entry, and the evaluation is ok
C28_Witness ==
    /\ Evaluated
    /\ 1 \in DOMAIN dietary_rules
    /\ dietary_rules[1].active
    /\ dietary_rules[1].rule_type = "no_repeat_within_days"
    /\ \E p \in DOMAIN meal_plans :
        /\ meal_plans[p].status = "skipped"
        /\ meal_plans[p].recipe_id = request.recipe_id
        /\ meal_plans[p].date = request.date
    /\ \A p \in DOMAIN meal_plans :
        meal_plans[p].recipe_id = request.recipe_id => meal_plans[p].status = "skipped"
    /\ evaluations[1].status = "ok"

(***************************************************************************)
(* Properties of the planner                                               *)
(***************************************************************************)
\* C29: rules are advisory when scheduling: a create_plan_entry request for
\* an existing recipe is answered 201 and inserts exactly one entry, planned,
\* for the requested date and recipe, whatever the rule evaluation returned;
\* for a recipe that does not exist it is answered 404 and inserts nothing.
C29_RulesAdvisory ==
    [][response'.op = "create_plan_entry" =>
        IF request'.recipe_id \in {1, 2}
        THEN /\ response'.code = 201
             /\ \E id \in DOMAIN meal_plans' \ DOMAIN meal_plans :
                    meal_plans' = meal_plans @@
                        (id :> [date |-> request'.date,
                                recipe_id |-> request'.recipe_id,
                                status |-> "planned"])
        ELSE /\ response'.code = 404
             /\ meal_plans' = meal_plans]_vars

\* the entry just created was evaluated as violating the chicken rule (at
\* most 1 a week), and the plan now holds 2 chicken entries in the week
C29_Witness ==
    /\ response.op = "create_plan_entry" /\ response.code = 201
    /\ 2 \in DOMAIN evaluations
    /\ evaluations[2].status = "violated"
    /\ Cardinality({p \in DOMAIN meal_plans :
                        /\ meal_plans[p].recipe_id = 1
                        /\ meal_plans[p].status = "planned"}) = 2

(***************************************************************************)
(* Properties of a completed swipe session                                 *)
(***************************************************************************)
\* the cards of session s, and how many SwipeMatch rows it has per recipe
CardRows(cs, s) == [k \in {c \in DOMAIN cs : c[1] = s} |-> cs[k]]
MatchCounts(ms, s) == [r \in RecipeIds |-> CopiesIn(MatchRow(s, r), ms)]

\* C30: a completed session is frozen: from the state in which a session's
\* status is completed, no step changes the decision or swiped_at of one of
\* its cards, its SwipeMatch rows or its status, and every swipe request
\* answered from then on is rejected with 400 (existing card) or 404
\* (unknown card).
C30_CompletedFrozen ==
    [][\A s \in DOMAIN swipe_sessions :
          swipe_sessions[s].status = "completed" =>
            /\ s \in DOMAIN swipe_sessions'
            /\ swipe_sessions'[s].status = "completed"
            /\ CardRows(swipe_cards', s) = CardRows(swipe_cards, s)
            /\ MatchCounts(swipe_matches', s) = MatchCounts(swipe_matches, s)
            /\ (response' # response /\ response'.op = "swipe")
                    => response'.code \in {400, 404}]_vars

====
